---- MODULE Spec2Model ----
(***************************************************************************)
(* Model of fake_rpi/neopixel.py: the NeoPixel pixel buffer (class         *)
(* NeoPixel) and the colorwheel helper.                                    *)
(*                                                                         *)
(* Representation of numbers.                                              *)
(*  - Buffers are sequences of bytes; Python index i is position i+1.      *)
(*  - A brightness is carried in units of 1/BrDen, so 0.5 is 5000 and the  *)
(*    0.001 threshold of the setter is BrEps units.  Every brightness the  *)
(*    model draws is either dyadic or far from a product boundary, so the  *)
(*    float product int(v * brightness) equals the exact quotient.         *)
(*  - The fourth component of a colour (white byte, or dotstar brightness  *)
(*    fraction) is carried in units of 1/WDen, so the fraction 0.5 is 31,  *)
(*    1.0 is 62 and the white byte 5 is 310.                               *)
(*  - A channel-order string is a sequence of one-character strings.       *)
(***************************************************************************)
EXTENDS Integers, Sequences, FiniteSets, TLC

\* ------------------------------------------------------------------------
\* Bounds of the model
\* ------------------------------------------------------------------------
MaxPixels == 2
\* colorwheel is applied to the positions from -WheelMargin to 255 + WheelMargin
WheelMargin == 3

\* ------------------------------------------------------------------------
\* Units
\* ------------------------------------------------------------------------
BrDen == 10 * 1000
BrEps == BrDen \div 1000
WDen == 2 * 31

\* ------------------------------------------------------------------------
\* Module constants
\* ------------------------------------------------------------------------
RGB == <<"R", "G", "B">>
GRB == <<"G", "R", "B">>
RGBW == <<"R", "G", "B", "W">>
GRBW == <<"G", "R", "B", "W">>

\* The dotstar frame constants are used by the class but defined nowhere in
\* the file; their values are those the specification states.
DOTSTAR_LED_START_FULL_BRIGHT == 255
DOTSTAR_LED_START == 224
DOTSTAR_LED_BRIGHTNESS == 31

\* ------------------------------------------------------------------------
\* Python helpers
\* ------------------------------------------------------------------------
Min2(a, b) == IF a < b THEN a ELSE b
Max2(a, b) == IF a > b THEN a ELSE b

\* x & m for m = 2^k - 1, x >= 0
AndMask(x, m) == x % (m + 1)

\* x | y where the set bits of x and y are disjoint
OrDisjoint(x, y) == x + y

\* c in s, for a one-character c
Contains(s, c) == \E k \in 1..Len(s) : s[k] = c

\* s.index(c): 0-based position of the first c; -1 stands for ValueError
IndexOf(s, c) ==
    IF Contains(s, c)
    THEN (CHOOSE k \in 1..Len(s) : s[k] = c /\ \A j \in 1..(k - 1) : s[j] # c) - 1
    ELSE -1

RECURSIVE LStrip(_, _)
LStrip(s, chars) ==
    IF s # <<>> /\ Head(s) \in chars THEN LStrip(Tail(s), chars) ELSE s

RECURSIVE RStrip(_, _)
RStrip(s, chars) ==
    IF s # <<>> /\ s[Len(s)] \in chars
    THEN RStrip(SubSeq(s, 1, Len(s) - 1), chars)
    ELSE s

\* s.strip(chars)
Strip(s, chars) == RStrip(LStrip(s, chars), chars)

\* bytearray(k)
Zeros(k) == [j \in 1..k |-> 0]

\* int(v * brightness) for a byte v and a brightness b in 1/BrDen
Scale(v, b) == (v * b) \div BrDen

\* ------------------------------------------------------------------------
\* NeoPixel._parse_byteorder
\* ------------------------------------------------------------------------
\* Result record: err = "ValueError" when the method raises.
\* the character check left out
InvalidCharactersUnchecked(byteorder) == FALSE

\* line 103
InvalidCharacters(byteorder) == Strip(byteorder, {"R", "G", "B", "W", "P"}) # <<>>

ParseByteorder(byteorder) ==
    LET bppv == Len(byteorder)
        r == IndexOf(byteorder, "R")
        g == IndexOf(byteorder, "G")
        b == IndexOf(byteorder, "B")
        bad == [err |-> "ValueError", bpp |-> 0, byteorder |-> <<>>,
                has_white |-> FALSE, dotstar_mode |-> FALSE]
    IN  IF InvalidCharacters(byteorder) THEN bad
        ELSE IF r < 0 \/ g < 0 \/ b < 0 THEN bad
        ELSE IF Contains(byteorder, "W")
             THEN [err |-> "none", bpp |-> bppv,
                   byteorder |-> <<r, g, b, IndexOf(byteorder, "W")>>,
                   has_white |-> TRUE, dotstar_mode |-> FALSE]
        ELSE IF Contains(byteorder, "P")
             THEN [err |-> "none", bpp |-> bppv,
                   byteorder |-> <<r, g, b, IndexOf(byteorder, "P")>>,
                   has_white |-> FALSE, dotstar_mode |-> TRUE]
        ELSE [err |-> "none", bpp |-> bppv, byteorder |-> <<r, g, b>>,
              has_white |-> FALSE, dotstar_mode |-> FALSE]

\* ------------------------------------------------------------------------
\* Index normalisation and range check of _set_item and __getitem__
\* ------------------------------------------------------------------------
\* the index reduced modulo the pixel count instead of wrapped once
NormIndexModulo(index, n) == index % n

\* if index < 0: index += len(self)
NormIndex(index, n) == IF index < 0 THEN index + n ELSE index

\* if index >= self._pixels or index < 0: raise IndexError
OutOfRange(idx, n) == idx >= n \/ idx < 0

\* ------------------------------------------------------------------------
\* NeoPixel._parse_color
\* ------------------------------------------------------------------------
\* A colour value is [kind |-> "int", v |-> packed integer, c |-> <<>>] or
\* [kind |-> "seq", v |-> 0, c |-> components].  The result's w is in 1/WDen.
IntColor(v) == [kind |-> "int", v |-> v, c |-> <<>>]
SeqColor(c) == [kind |-> "seq", v |-> 0, c |-> c]

\* the frame byte without the start bits
DotstarFrameNoStart(w) == AndMask((w * 31) \div WDen, DOTSTAR_LED_BRIGHTNESS)

\* line 231: the dotstar frame byte of a brightness fraction w (in 1/WDen)
DotstarFrame(w) ==
    OrDisjoint(AndMask((w * 31) \div WDen, DOTSTAR_LED_BRIGHTNESS), DOTSTAR_LED_START)

\* the white shortcut taken for explicit 4-tuples too
InferWhiteAnyLength(bppv, dot, hw, isint, n, r, g, b) ==
    bppv = 4 /\ ~dot /\ hw /\ r = g /\ g = b

\* lines 232-237: the condition of the white shortcut
InferWhite(bppv, dot, hw, isint, n, r, g, b) ==
    bppv = 4 /\ ~dot /\ hw /\ (isint \/ n = 3) /\ r = g /\ g = b

\* only a sequence that is too short refused
WrongLengthShort(n) == n < 3

\* line 212
WrongLength(n) == n < 3 \/ n > 4

ParseColor(value, bppv, dot, hw) ==
    LET isint == value.kind = "int"
        n == Len(value.c)
        badlen == ~isint /\ WrongLength(n)
        \* lines 199-224
        positional == ~isint /\ ~badlen /\ (n = bppv \/ n = 3)
        r0 == IF isint THEN value.v \div 65536
              ELSE IF positional THEN value.c[1] ELSE 0
        g0 == IF isint THEN (value.v \div 256) % 256
              ELSE IF positional THEN value.c[2] ELSE 0
        b0 == IF isint THEN value.v % 256
              ELSE IF positional THEN value.c[3] ELSE 0
        w0 == IF isint THEN (IF dot THEN WDen ELSE 0)
              ELSE IF badlen THEN 0
              ELSE IF n = bppv THEN (IF bppv = 3 THEN 0 ELSE value.c[4])
              ELSE IF n = 3 THEN (IF dot THEN WDen ELSE 0)
              ELSE 0
        \* lines 226-243
        frame == DotstarFrame(w0)
        infer == InferWhite(bppv, dot, hw, isint, n, r0, g0, b0)
    IN  IF badlen
        THEN [err |-> "ValueError", r |-> 0, g |-> 0, b |-> 0, w |-> 0]
        ELSE IF bppv = 4 /\ dot
        THEN [err |-> "none", r |-> r0, g |-> g0, b |-> b0, w |-> frame * WDen]
        ELSE IF infer
        THEN [err |-> "none", r |-> 0, g |-> 0, b |-> 0, w |-> r0 * WDen]
        ELSE [err |-> "none", r |-> r0, g |-> g0, b |-> b0, w |-> w0]

\* ------------------------------------------------------------------------
\* bytearray item assignment
\* ------------------------------------------------------------------------
\* One write buf[pos] = val: tupleok tells whether the byteorder subscript
\* in the index expression exists, isint whether val is an integer.
\* B is [pre, post, err]; a write after an exception does nothing.
WriteByte(B, which, pos, val, isint, tupleok) ==
    LET buf == IF which = "pre" THEN B.pre ELSE B.post
        e == IF ~tupleok THEN "IndexError"
             ELSE IF pos < 0 \/ pos >= Len(buf) THEN "IndexError"
             ELSE IF ~isint THEN "TypeError"
             ELSE IF val < 0 \/ val > 255 THEN "ValueError"
             ELSE "none"
    IN  IF B.err # "none" THEN B
        ELSE IF e # "none" THEN [B EXCEPT !.err = e]
        ELSE IF which = "pre"
             THEN [B EXCEPT !.pre = [B.pre EXCEPT ![pos + 1] = val]]
             ELSE [B EXCEPT !.post = [B.post EXCEPT ![pos + 1] = val]]

\* byteorder[k] when the tuple has it, else 0 (the write then raises)
Order(bo, k) == IF k + 1 <= Len(bo) THEN bo[k + 1] ELSE 0

\* ------------------------------------------------------------------------
\* NeoPixel._set_item
\* ------------------------------------------------------------------------
\* O is the object's geometry: [pixels, bpp, byteorder, has_white,
\* dotstar_mode, offset, bytes, pixel_step].  Returns [present, pre, post,
\* err]: the buffers as the method leaves them and the exception it raised.
SetItem(O, br, present, prebuf, postbuf, index, r, g, b, w) ==
    LET idx == NormIndex(index, O.pixels)
        off == O.offset + (idx * O.bpp)
        bo == O.byteorder
        has3 == Len(bo) >= 4
        B0 == [pre |-> prebuf, post |-> postbuf, err |-> "none"]
        \* lines 254-259
        P1 == IF present /\ O.bpp = 4
              THEN WriteByte(B0, "pre", off + Order(bo, 3), w \div WDen,
                             w % WDen = 0, has3)
              ELSE B0
        P2 == IF present THEN WriteByte(P1, "pre", off + Order(bo, 0), r, TRUE, TRUE)
              ELSE P1
        P3 == IF present THEN WriteByte(P2, "pre", off + Order(bo, 1), g, TRUE, TRUE)
              ELSE P2
        P4 == IF present THEN WriteByte(P3, "pre", off + Order(bo, 2), b, TRUE, TRUE)
              ELSE P3
        \* lines 261-265
        wpost == IF O.dotstar_mode THEN w \div WDen ELSE (w * br) \div (WDen * BrDen)
        wint == IF O.dotstar_mode THEN w % WDen = 0 ELSE TRUE
        Q1 == IF O.bpp = 4
              THEN WriteByte(P4, "post", off + Order(bo, 3), wpost, wint, has3)
              ELSE P4
        \* lines 267-275
        Q2 == WriteByte(Q1, "post", off + Order(bo, 0), Scale(r, br), TRUE, TRUE)
        Q3 == WriteByte(Q2, "post", off + Order(bo, 1), Scale(g, br), TRUE, TRUE)
        Q4 == WriteByte(Q3, "post", off + Order(bo, 2), Scale(b, br), TRUE, TRUE)
    IN  IF OutOfRange(idx, O.pixels)
        THEN [present |-> present, pre |-> prebuf, post |-> postbuf,
              err |-> "IndexError"]
        ELSE [present |-> present, pre |-> Q4.pre, post |-> Q4.post, err |-> Q4.err]

\* ------------------------------------------------------------------------
\* NeoPixel._getitem and NeoPixel.__getitem__ (integer index)
\* ------------------------------------------------------------------------
\* The fourth element of the result is in 1/WDen: WDen * white byte, or the
\* dotstar fraction (frame & 31) / 31.0.

\* the frame byte divided by 31 with the start bits left in
DotstarFractionNoMask(byte) == (byte * WDen) \div 31

\* lines 305-307, in 1/WDen
DotstarFraction(byte) == (AndMask(byte, DOTSTAR_LED_BRIGHTNESS) * WDen) \div 31

GetItemRaw(O, present, prebuf, postbuf, index) ==
    LET start == O.offset + (index * O.bpp)
        buffer == IF present THEN prebuf ELSE postbuf
        bo == O.byteorder
        At(k) == buffer[start + Order(bo, k) + 1]
        In(k) == k + 1 <= Len(bo) /\ start + Order(bo, k) < Len(buffer)
        rgbok == In(0) /\ In(1) /\ In(2)
    IN  IF ~rgbok THEN [err |-> "IndexError", value |-> <<>>]
        ELSE IF O.has_white
        THEN IF In(3)
             THEN [err |-> "none", value |-> <<At(0), At(1), At(2), At(3) * WDen>>]
             ELSE [err |-> "IndexError", value |-> <<>>]
        ELSE IF O.dotstar_mode
        THEN IF In(3)
             THEN [err |-> "none",
                   value |-> <<At(0), At(1), At(2), DotstarFraction(At(3))>>]
             ELSE [err |-> "IndexError", value |-> <<>>]
        ELSE [err |-> "none", value |-> <<At(0), At(1), At(2)>>]

GetItem(O, present, prebuf, postbuf, index) ==
    LET idx == NormIndex(index, O.pixels)
    IN  IF OutOfRange(idx, O.pixels)
        THEN [err |-> "IndexError", value |-> <<>>]
        ELSE GetItemRaw(O, present, prebuf, postbuf, idx)

\* ------------------------------------------------------------------------
\* NeoPixel.brightness (setter)
\* ------------------------------------------------------------------------
\* Returns [brightness, present, pre, post, shows].
\* line 144
Clamp(value) == Min2(Max2(value, 0), BrDen)

\* only an exactly equal value treated as unchanged
NearlyEqualExact(change) == change = 0

\* line 146
NearlyEqual(change) == (0 - BrEps) < change /\ change < BrEps

\* an absent pre-brightness buffer created empty of colour
MaterializeZeros(present, prebuf, postbuf) ==
    IF present THEN prebuf ELSE Zeros(Len(postbuf))

\* lines 151-152
Materialize(present, prebuf, postbuf) ==
    IF present THEN prebuf ELSE postbuf

SetBrightness(O, cur, present, prebuf, postbuf, aw, value) ==
    LET v == Clamp(value)
        change == v - cur
        pre1 == Materialize(present, prebuf, postbuf)
        offset_check == O.offset % O.pixel_step
        Skip(i) == O.dotstar_mode /\ (i % 4 # offset_check)
        post1 == [j \in 1..Len(postbuf) |->
                    IF (j - 1) >= O.offset /\ (j - 1) < O.bytes + O.offset
                       /\ ~Skip(j - 1)
                    THEN Scale(pre1[j], v)
                    ELSE postbuf[j]]
    IN  IF NearlyEqual(change)
        THEN [brightness |-> cur, present |-> present, pre |-> prebuf,
              post |-> postbuf, shows |-> 0]
        ELSE [brightness |-> v, present |-> TRUE, pre |-> pre1, post |-> post1,
              shows |-> IF aw THEN 1 ELSE 0]

\* ------------------------------------------------------------------------
\* colorwheel
\* ------------------------------------------------------------------------
\* the upper range check one too late
colorwheelLate(pos) ==
    IF pos < 0 \/ pos > 256 THEN <<0, 0, 0>>
    ELSE IF pos < 85 THEN <<255 - pos * 3, pos * 3, 0>>
    ELSE IF pos < 170 THEN <<0, 255 - (pos - 85) * 3, (pos - 85) * 3>>
    ELSE <<(pos - 170) * 3, 0, 255 - (pos - 170) * 3>>

colorwheel(pos) ==
    IF pos < 0 \/ pos > 255 THEN <<0, 0, 0>>
    ELSE IF pos < 85 THEN <<255 - pos * 3, pos * 3, 0>>
    ELSE IF pos < 170 THEN <<0, 255 - (pos - 85) * 3, (pos - 85) * 3>>
    ELSE <<(pos - 170) * 3, 0, 255 - (pos - 170) * 3>>

\* ------------------------------------------------------------------------
\* slice.indices and range
\* ------------------------------------------------------------------------
\* A slice is [hasStart, start, hasStop, stop, step] (step None is step 1).
Slice(hs, st, he, en, step) ==
    [hasStart |-> hs, start |-> st, hasStop |-> he, stop |-> en, step |-> step]

\* slice.indices(n) as <<start, stop, step>>
SliceIndices(sl, n) ==
    LET step == sl.step
        lower == IF step < 0 THEN -1 ELSE 0
        upper == IF step < 0 THEN n - 1 ELSE n
        start == IF ~sl.hasStart THEN (IF step < 0 THEN upper ELSE lower)
                 ELSE IF sl.start < 0 THEN Max2(sl.start + n, lower)
                 ELSE Min2(sl.start, upper)
        stop == IF ~sl.hasStop THEN (IF step < 0 THEN lower ELSE upper)
                ELSE IF sl.stop < 0 THEN Max2(sl.stop + n, lower)
                ELSE Min2(sl.stop, upper)
    IN  <<start, stop, step>>

\* list(range(start, stop, step)), step # 0
RangeSeq(start, stop, step) ==
    LET len == IF step > 0
               THEN (IF stop > start THEN (stop - start + step - 1) \div step ELSE 0)
               ELSE (IF stop < start THEN (start - stop - step - 1) \div (0 - step) ELSE 0)
    IN  [k \in 1..len |-> start + (k - 1) * step]

\* ------------------------------------------------------------------------
\* NeoPixel.__getitem__ (slice index)
\* ------------------------------------------------------------------------
\* the number of entries the slice is expanded over, line 314
SliceLength(O, postbuf) == Len(postbuf) \div O.bpp

\* lines 311-317: [err, value], value the list of the pixels read
GetSlice(O, present, prebuf, postbuf, sl) ==
    LET ind == SliceIndices(sl, SliceLength(O, postbuf))
        rng == RangeSeq(ind[1], ind[2], ind[3])
        items == [k \in 1..Len(rng) |->
                    GetItemRaw(O, present, prebuf, postbuf, rng[k])]
    IN  IF \E k \in 1..Len(rng) : items[k].err # "none"
        THEN [err |-> "IndexError", value |-> <<>>]
        ELSE [err |-> "none", value |-> [k \in 1..Len(rng) |-> items[k].value]]

\* ------------------------------------------------------------------------
\* Inputs
\* ------------------------------------------------------------------------
\* pixel_order arguments: None, a string, or a tuple of indices into RGBW
NoOrder == [kind |-> "none", s |-> <<>>, t |-> <<>>]
StrOrder(s) == [kind |-> "str", s |-> s, t |-> <<>>]
TupleOrder(t) == [kind |-> "tuple", s |-> <<>>, t |-> t]

PixelOrders ==
    { NoOrder,
      StrOrder(<<"B", "R", "G">>), TupleOrder(<<3, 2, 1, 0>>),
      StrOrder(<<"P", "B", "G", "R">>), StrOrder(<<"R", "G", "B", "P">>),
      StrOrder(<<"R", "G", "B", "B">>), StrOrder(<<"R", "G", "B", "W", "P">>),
      StrOrder(<<"R", "G">>), StrOrder(<<"R", "G", "X", "B">>) }

\* header / trailer arguments: None, a bytearray, or some other object
NoBytes == [kind |-> "none", buf |-> <<>>]
ByteArray(b) == [kind |-> "bytearray", buf |-> b]
OtherBytes(b) == [kind |-> "bytes", buf |-> b]

\* <<header, trailer>>
Layouts == { <<NoBytes, NoBytes>>, <<OtherBytes(<<170>>), NoBytes>>,
             <<NoBytes, OtherBytes(<<187>>)>> }

Brightnesses == { 5000, 5005, BrDen, 12000 }

AutoWrites == { TRUE }

\* brightness values on both sides of both clamps and of the 0.001 threshold
BrightnessSweep == { 0 - 3000, 0, 5, BrEps, 5000, 5005, BrDen, 12000 }
SweepOrders == { NoOrder, StrOrder(<<"P", "B", "G", "R">>) }

\* inputs of the specification of the transmissions: strips of the default
\* orders (GRB, GRBW) and of a dotstar order, colours of every length from 2
\* to 5, slices of no, one and all pixels
ShowOrders == { NoOrder, StrOrder(<<"R", "G", "B", "P">>) }
ShowBrightnesses == { 5000, BrDen }
ShowColors ==
    { SeqColor(<<10, 20, 30>>), SeqColor(<<1, 2>>), SeqColor(<<1, 2, 3, 4, 5>>) }
ShowSlices ==
    { Slice(FALSE, 0, FALSE, 0, 1), Slice(TRUE, 0 - 1, TRUE, 5, 1),
      Slice(TRUE, 5, TRUE, 5, 1) }
ShowSliceValues ==
    { [k \in 1..MaxPixels |-> SeqColor(<<10, 20, 30>>)], <<SeqColor(<<1, 2>>)>> }

\* inputs of the specification of the buffer layout: strips with and without
\* header and trailer, of the default orders, of a dotstar order and of a
\* dotstar order of five letters (bytes per pixel 5, stride 4)
FrameOrders ==
    { NoOrder, StrOrder(<<"R", "G", "B", "P">>),
      StrOrder(<<"P", "P", "R", "G", "B">>) }
FrameLayouts ==
    { <<NoBytes, NoBytes>>, <<ByteArray(<<170>>), ByteArray(<<187, 204>>)>>,
      <<NoBytes, ByteArray(<<187, 204, 221>>)>> }
FrameColors == { SeqColor(<<10, 20, 30>>), SeqColor(<<1, 2, 3>>) }
FullRange == Slice(FALSE, 0, FALSE, 0, 1)
FrameSlices == { FullRange, Slice(FALSE, 0, FALSE, 0, 0 - 1) }

\* packed integers: 0x000000, 0x010203, 0x050505, 0x0A141E, 0x0000FF, 0x00FF00,
\* 0xFF0000, 0xFFFFFF, and of more than 24 bits 0x1000000, 0x1050505,
\* 0x10A141E, 0x7FFFFFFF
PackedValues ==
    { 0, 66051, 328965, 660510, 255, 65280, 16711680, 16777215,
      16777216, 17106181, 17437726, 2147483647 }

Colors ==
    { IntColor(328965),
      SeqColor(<<10, 20, 30>>), SeqColor(<<5, 5, 5>>),
      SeqColor(<<5, 5, 5, 0>>), SeqColor(<<10, 20, 30, 31>>),
      SeqColor(<<1, 2>>) }

Slices ==
    { Slice(FALSE, 0, FALSE, 0, 1), Slice(FALSE, 0, FALSE, 0, 0 - 1),
      Slice(TRUE, 0 - 1, TRUE, 5, 1) }

SliceValues ==
    { <<SeqColor(<<10, 20, 30>>), IntColor(328965)>>,
      <<SeqColor(<<5, 5, 5, 0>>), SeqColor(<<1, 2>>), SeqColor(<<5, 5, 5>>)>> }

\* ------------------------------------------------------------------------
\* State
\* ------------------------------------------------------------------------
VARIABLES
    pc,                 \* "new", "ready" (constructed) or "failed" (__init__ raised)
    pixels,             \* self._pixels
    bytes,              \* self._bytes
    byteorder,          \* self._byteorder
    byteorder_string,   \* self._byteorder_string
    has_white,          \* self._has_white
    bpp,                \* self._bpp
    pre_present,        \* self._pre_brightness_buffer is not None
    pre_brightness_buffer,
    post_brightness_buffer,
    offset,             \* self._offset
    dotstar_mode,       \* self._dotstar_mode
    pixel_step,         \* self._pixel_step
    brightness,         \* self._brightness, in 1/BrDen
    auto_write,         \* self.auto_write
    last                \* the last call: [op, idx, val, res, shows]

geometry == <<pixels, bytes, byteorder, byteorder_string, has_white, bpp,
              offset, dotstar_mode, pixel_step>>
vars == <<pc, pixels, bytes, byteorder, byteorder_string, has_white, bpp,
          pre_present, pre_brightness_buffer, post_brightness_buffer, offset,
          dotstar_mode, pixel_step, brightness, auto_write, last>>

Self == [pixels |-> pixels, bytes |-> bytes, byteorder |-> byteorder,
         has_white |-> has_white, bpp |-> bpp, offset |-> offset,
         dotstar_mode |-> dotstar_mode, pixel_step |-> pixel_step]

\* The record of a call: its result ("none" or the exception raised), the
\* number of show() calls it made, post_buffer as it was at the last of them
\* (<<>> when it made none) and, when it succeeded, its arguments.
Indices == (0 - MaxPixels - 1)..MaxPixels

NoColor == [kind |-> "none", v |-> 0, c |-> <<>>]
\* the argument of a brightness assignment, in 1/BrDen
Level(value) == [kind |-> "level", v |-> value, c |-> <<>>]
Call(op, idx, val, res, shows, sent) ==
    [op |-> op, idx |-> IF res = "none" THEN idx ELSE 0,
     val |-> IF res = "none" THEN val ELSE NoColor, res |-> res, shows |-> shows,
     sent |-> IF shows > 0 THEN sent ELSE <<>>]

Init ==
    /\ pc = "new"
    /\ pixels = 0
    /\ bytes = 0
    /\ byteorder = <<>>
    /\ byteorder_string = <<>>
    /\ has_white = FALSE
    /\ bpp = 0
    /\ pre_present = FALSE
    /\ pre_brightness_buffer = <<>>
    /\ post_brightness_buffer = <<>>
    /\ offset = 0
    /\ dotstar_mode = FALSE
    /\ pixel_step = 0
    /\ brightness = BrDen
    /\ auto_write = FALSE
    /\ last = Call("none", 0, NoColor, "none", 0, <<>>)

\* ------------------------------------------------------------------------
\* NeoPixel.__init__
\* ------------------------------------------------------------------------
\* lines 26-32: the byteorder string; err = "IndexError" when RGBW[order] raises
OrderString(pixel_order, bppArg) ==
    IF pixel_order.kind = "none"
       \/ (pixel_order.kind = "str" /\ pixel_order.s = <<>>)
       \/ (pixel_order.kind = "tuple" /\ pixel_order.t = <<>>)
    THEN [err |-> "none", s |-> IF bppArg = 3 THEN GRB ELSE GRBW]
    ELSE IF pixel_order.kind = "tuple"
    THEN IF \A k \in 1..Len(pixel_order.t) : pixel_order.t[k] \in 0..3
         THEN [err |-> "none",
               s |-> [k \in 1..Len(pixel_order.t) |-> RGBW[pixel_order.t[k] + 1]]]
         ELSE [err |-> "IndexError", s |-> <<>>]
    ELSE [err |-> "none", s |-> pixel_order.s]

\* lines 66-75: the dotstar start bytes
DotstarInit(buf, off, nbytes) ==
    [j \in 1..Len(buf) |->
        IF (j - 1) >= off /\ (j - 1) < nbytes + off /\ ((j - 1) - off) % 4 = 0
        THEN DOTSTAR_LED_START_FULL_BRIGHT
        ELSE buf[j]]

ConstructFails(e) ==
    /\ pc' = "failed"
    /\ last' = Call("init", 0, NoColor, e, 0, <<>>)
    /\ UNCHANGED <<geometry, pre_present, pre_brightness_buffer,
                   post_brightness_buffer, brightness, auto_write>>

Construct(n, bppArg, br, aw, pixel_order, header, trailer) ==
    LET os == OrderString(pixel_order, bppArg)
        pb == ParseByteorder(os.s)
        effective_bpp == IF pb.dotstar_mode THEN 4 ELSE pb.bpp
        nbytes == effective_bpp * n
        off == IF header.kind = "none" THEN 0 ELSE Len(header.buf)
        buf0 == (IF header.kind = "none" THEN <<>> ELSE header.buf) \o Zeros(nbytes)
                \o (IF trailer.kind = "none" THEN <<>> ELSE trailer.buf)
        buf1 == IF pb.dotstar_mode THEN DotstarInit(buf0, off, nbytes) ELSE buf0
        O == [pixels |-> n, bytes |-> nbytes, byteorder |-> pb.byteorder,
              has_white |-> pb.has_white, bpp |-> pb.bpp, offset |-> off,
              dotstar_mode |-> pb.dotstar_mode, pixel_step |-> effective_bpp]
        sb == SetBrightness(O, BrDen, FALSE, <<>>, buf1, FALSE, br)
    IN  /\ pc = "new"
        /\ IF os.err # "none" THEN ConstructFails(os.err)
           ELSE IF pb.err # "none" THEN ConstructFails(pb.err)
           ELSE IF header.kind = "bytes" \/ trailer.kind = "bytes"
           THEN ConstructFails("TypeError")
           ELSE /\ pc' = "ready"
                /\ pixels' = n
                /\ bytes' = nbytes
                /\ byteorder' = pb.byteorder
                /\ byteorder_string' = os.s
                /\ has_white' = pb.has_white
                /\ bpp' = pb.bpp
                /\ offset' = off
                /\ dotstar_mode' = pb.dotstar_mode
                /\ pixel_step' = effective_bpp
                /\ pre_present' = sb.present
                /\ pre_brightness_buffer' = sb.pre
                /\ post_brightness_buffer' = sb.post
                /\ brightness' = sb.brightness
                /\ auto_write' = aw
                /\ last' = Call("init", 0, NoColor, "none", sb.shows, post_brightness_buffer')

\* ------------------------------------------------------------------------
\* NeoPixel.__setitem__, fill, deinit, show
\* ------------------------------------------------------------------------
Buffers == [present |-> pre_present, pre |-> pre_brightness_buffer,
            post |-> post_brightness_buffer, err |-> "none"]

\* The buffer variables take the value of B (as the call left them).
Store(B) ==
    /\ pre_present' = B.present
    /\ pre_brightness_buffer' = B.pre
    /\ post_brightness_buffer' = B.post

\* a transmission after every completed call, whatever auto_write
ShowsAlways(e) == IF e = "none" THEN 1 ELSE 0

\* lines 287-288 (and 195-196): if self.auto_write: self.show()
ShowsAfter(e) == IF e = "none" /\ auto_write THEN 1 ELSE 0

\* __setitem__ with an integer index, lines 284-288
SetPixelResult(O, br, B, index, val) ==
    LET c == ParseColor(val, O.bpp, O.dotstar_mode, O.has_white)
    IN  IF c.err # "none" THEN [B EXCEPT !.err = c.err]
        ELSE SetItem(O, br, B.present, B.pre, B.post, index, c.r, c.g, c.b, c.w)

SetPixel(index, val) ==
    LET B == SetPixelResult(Self, brightness, Buffers, index, val)
    IN  /\ pc = "ready"
        /\ Store(B)
        /\ last' = Call("set_pixel", index, val, B.err, ShowsAfter(B.err), post_brightness_buffer')
        /\ UNCHANGED <<pc, geometry, brightness, auto_write>>

\* the loop stopping one pixel short
RECURSIVE FillFromShort(_, _, _, _, _)
FillFromShort(O, br, B, c, k) ==
    IF k >= O.pixels - 1 \/ B.err # "none" THEN B
    ELSE FillFromShort(O, br,
                       SetItem(O, br, B.present, B.pre, B.post, k, c.r, c.g, c.b, c.w),
                       c, k + 1)

\* fill, lines 192-194: the loop from pixel k on
RECURSIVE FillFrom(_, _, _, _, _)
FillFrom(O, br, B, c, k) ==
    IF k >= O.pixels \/ B.err # "none" THEN B
    ELSE FillFrom(O, br,
                  SetItem(O, br, B.present, B.pre, B.post, k, c.r, c.g, c.b, c.w),
                  c, k + 1)

FillResult(O, br, B, val) ==
    LET c == ParseColor(val, O.bpp, O.dotstar_mode, O.has_white)
    IN  IF c.err # "none" THEN [B EXCEPT !.err = c.err]
        ELSE FillFrom(O, br, B, c, 0)

Fill(val) ==
    LET B == FillResult(Self, brightness, Buffers, val)
    IN  /\ pc = "ready"
        /\ Store(B)
        /\ last' = Call("fill", 0, val, B.err, ShowsAfter(B.err), post_brightness_buffer')
        /\ UNCHANGED <<pc, geometry, brightness, auto_write>>

\* __setitem__ with a slice, lines 278-282: the loop from position k on
RECURSIVE SliceFrom(_, _, _, _, _, _)
SliceFrom(O, br, B, rng, val, k) ==
    IF k > Len(rng) \/ B.err # "none" THEN B
    ELSE IF k > Len(val) THEN [B EXCEPT !.err = "IndexError"]
    ELSE SliceFrom(O, br, SetPixelResult(O, br, B, rng[k], val[k]), rng, val, k + 1)

SetSliceResult(O, br, B, sl, val) ==
    LET ind == SliceIndices(sl, O.pixels)
    IN  SliceFrom(O, br, B, RangeSeq(ind[1], ind[2], ind[3]), val, 1)

SetSlice(sl, val) ==
    LET B == SetSliceResult(Self, brightness, Buffers, sl, val)
    IN  /\ pc = "ready"
        /\ Store(B)
        /\ last' = Call("set_slice", 0, NoColor, B.err, ShowsAfter(B.err), post_brightness_buffer')
        /\ UNCHANGED <<pc, geometry, brightness, auto_write>>

\* brightness = value
SetBrightnessCall(value) ==
    LET sb == SetBrightness(Self, brightness, pre_present, pre_brightness_buffer,
                            post_brightness_buffer, auto_write, value)
    IN  /\ pc = "ready"
        /\ brightness' = sb.brightness
        /\ pre_present' = sb.present
        /\ pre_brightness_buffer' = sb.pre
        /\ post_brightness_buffer' = sb.post
        /\ last' = Call("set_brightness", 0, Level(value), "none", sb.shows,
                        post_brightness_buffer')
        /\ UNCHANGED <<pc, geometry, auto_write>>

\* self._parse_color(v), v a packed integer: the call's value keeps v and
\* the (r, g, b, w) returned
Decoded(v, rgbw) == [kind |-> "decoded", v |-> v, c |-> rgbw]

ParseColorCall(v) ==
    LET pcol == ParseColor(IntColor(v), bpp, dotstar_mode, has_white)
    IN  /\ pc = "ready"
        /\ last' = Call("parse_color", 0,
                        Decoded(v, <<pcol.r, pcol.g, pcol.b, pcol.w>>),
                        pcol.err, 0, <<>>)
        /\ UNCHANGED <<pc, geometry, pre_present, pre_brightness_buffer,
                       post_brightness_buffer, brightness, auto_write>>

\* self[sl], sl a slice: the list read is the value of the call
ListValue(items) == [kind |-> "list", v |-> 0, c |-> items]

GetSliceCall(sl) ==
    LET got == GetSlice(Self, pre_present, pre_brightness_buffer,
                        post_brightness_buffer, sl)
    IN  /\ pc = "ready"
        /\ last' = Call("get_slice", 0, ListValue(got.value), got.err, 0, <<>>)
        /\ UNCHANGED <<pc, geometry, pre_present, pre_brightness_buffer,
                       post_brightness_buffer, brightness, auto_write>>

\* show() does nothing but count as a transmission
Show ==
    /\ pc = "ready"
    /\ last' = Call("show", 0, NoColor, "none", 1, post_brightness_buffer)
    /\ UNCHANGED <<pc, geometry, pre_present, pre_brightness_buffer,
                   post_brightness_buffer, brightness, auto_write>>

\* deinit (and __exit__): fill(0) then show()
Deinit ==
    LET B == FillResult(Self, brightness, Buffers, IntColor(0))
    IN  /\ pc = "ready"
        /\ Store(B)
        /\ last' = Call("deinit", 0, IntColor(0), B.err,
                        IF B.err = "none" THEN ShowsAfter(B.err) + 1 ELSE 0,
                        post_brightness_buffer')
        /\ UNCHANGED <<pc, geometry, brightness, auto_write>>

Next ==
    \/ \E n \in 1..MaxPixels, bppArg \in {3, 4}, br \in Brightnesses,
          aw \in AutoWrites, po \in PixelOrders, ht \in Layouts :
          Construct(n, bppArg, br, aw, po, ht[1], ht[2])
    \/ \E i \in Indices, c \in Colors : SetPixel(i, c)
    \/ \E sl \in Slices, val \in SliceValues : SetSlice(sl, val)
    \/ \E c \in Colors : Fill(c)
    \/ \E v \in Brightnesses : SetBrightnessCall(v)
    \/ Show
    \/ Deinit

Spec == Init /\ [][Next]_vars

\* The brightness setter over its whole input range, both clamps included,
\* on strips of the default order and of a dotstar order, with auto_write
\* on and off.
NextSweep ==
    \/ \E n \in 1..MaxPixels, br \in BrightnessSweep, aw \in BOOLEAN,
          po \in SweepOrders :
          Construct(n, 3, br, aw, po, NoBytes, NoBytes)
    \/ \E i \in {0, 0 - 1} : SetPixel(i, SeqColor(<<10, 20, 30>>))
    \/ \E v \in BrightnessSweep : SetBrightnessCall(v)

SpecSweep == Init /\ [][NextSweep]_vars

\* colorwheel applied to every position of WheelPositions: the position is
\* drawn at the start, the call records its result.
WheelPositions == (0 - WheelMargin)..(255 + WheelMargin)

InitWheel ==
    /\ pc = "wheel"
    /\ pixels = 0
    /\ bytes = 0
    /\ byteorder = <<>>
    /\ byteorder_string = <<>>
    /\ has_white = FALSE
    /\ bpp = 0
    /\ pre_present = FALSE
    /\ pre_brightness_buffer = <<>>
    /\ post_brightness_buffer = <<>>
    /\ offset = 0
    /\ dotstar_mode = FALSE
    /\ pixel_step = 0
    /\ brightness = BrDen
    /\ auto_write = FALSE
    /\ \E pos \in WheelPositions : last = Call("none", pos, NoColor, "none", 0, <<>>)

Colorwheel ==
    /\ pc = "wheel"
    /\ last.op = "none"
    /\ last' = Call("colorwheel", last.idx, SeqColor(colorwheel(last.idx)), "none",
                    0, <<>>)
    /\ UNCHANGED <<pc, geometry, pre_present, pre_brightness_buffer,
                   post_brightness_buffer, brightness, auto_write>>

NextWheel == Colorwheel

SpecWheel == InitWheel /\ [][NextWheel]_vars

\* Reads and writes on strips with a header and a trailer.
NextFrame ==
    \/ \E n \in 1..MaxPixels, bppArg \in {3, 4}, br \in ShowBrightnesses,
          po \in FrameOrders, ht \in FrameLayouts :
          Construct(n, bppArg, br, TRUE, po, ht[1], ht[2])
    \/ \E i \in {0, 0 - 1}, c \in FrameColors : SetPixel(i, c)
    \/ \E v \in ShowBrightnesses : SetBrightnessCall(v)
    \/ \E sl \in FrameSlices : GetSliceCall(sl)
    \/ Deinit

SpecFrame == Init /\ [][NextFrame]_vars

\* Packed-integer colours decoded and written on strips of each geometry.
NextDecode ==
    \/ \E n \in 1..MaxPixels, bppArg \in {3, 4}, po \in ShowOrders :
          Construct(n, bppArg, BrDen, FALSE, po, NoBytes, NoBytes)
    \/ \E v \in PackedValues : ParseColorCall(v)
    \/ \E v \in PackedValues : SetPixel(0, IntColor(v))

SpecDecode == Init /\ [][NextDecode]_vars

\* Every mutating operation with auto_write on and off.
NextShow ==
    \/ \E n \in 1..MaxPixels, bppArg \in {3, 4}, br \in ShowBrightnesses,
          aw \in BOOLEAN, po \in ShowOrders :
          Construct(n, bppArg, br, aw, po, NoBytes, NoBytes)
    \/ \E i \in {0, 0 - 1, MaxPixels}, c \in ShowColors : SetPixel(i, c)
    \/ \E sl \in ShowSlices, val \in ShowSliceValues : SetSlice(sl, val)
    \/ \E c \in ShowColors : Fill(c)
    \/ \E v \in ShowBrightnesses : SetBrightnessCall(v)
    \/ Show
    \/ Deinit

SpecShow == Init /\ [][NextShow]_vars

\* ------------------------------------------------------------------------
\* Vocabulary of the properties
\* ------------------------------------------------------------------------
Count(s, c) == Cardinality({k \in 1..Len(s) : s[k] = c})

\* R, G and B exactly once, at most one of W and P, nothing else
ValidOrder(s) ==
    /\ \A k \in 1..Len(s) : s[k] \in {"R", "G", "B", "W", "P"}
    /\ Count(s, "R") = 1 /\ Count(s, "G") = 1 /\ Count(s, "B") = 1
    /\ Count(s, "W") + Count(s, "P") <= 1

\* get_pixel(j), in this state and in the next
Pixel(j) == GetItem(Self, pre_present, pre_brightness_buffer,
                    post_brightness_buffer, j)
PixelNext(j) == GetItem(Self, pre_present', pre_brightness_buffer',
                        post_brightness_buffer', j)

\* the pixel an index in [-pixel_count, pixel_count) names
Wrap(j) == IF j < 0 THEN j + pixels ELSE j

\* the byte of channel ch in pixel j's slot of buf
ChannelByte(buf, j, ch) ==
    buf[offset + j * pixel_step + IndexOf(byteorder_string, ch) + 1]

\* floor(v * brightness)
Floor(v, b) == (v * b) \div BrDen

SetPixelDone == pc = "ready" /\ last.op = "set_pixel" /\ last.res = "none"

IsTriple(val) == val.kind = "seq" /\ Len(val.c) = 3
IsQuad(val) == val.kind = "seq" /\ Len(val.c) = 4

\* the bytes of pixel j in post at the R, G, B offsets are floor(c * br)
PostIsScaled(post, br, j, c) ==
    /\ ChannelByte(post, j, "R") = Floor(c[1], br)
    /\ ChannelByte(post, j, "G") = Floor(c[2], br)
    /\ ChannelByte(post, j, "B") = Floor(c[3], br)

\* ------------------------------------------------------------------------
\* C1
\* ------------------------------------------------------------------------
\* C1: after set_pixel(i, c) with a 3-tuple c followed by set_brightness,
\* get_pixel(i) returns the r, g, b of c, and the post_buffer bytes of pixel i
\* at the channel offsets are floor(r * brightness), floor(g * brightness),
\* floor(b * brightness), for every channel order.  Stated for the colours
\* that white inference leaves alone (not r = g = b), right after the
\* set_pixel and after one set_brightness that follows it.
C1_NonDestructiveBrightness ==
    [][ (SetPixelDone /\ ValidOrder(byteorder_string) /\ IsTriple(last.val)
         /\ ~(last.val.c[1] = last.val.c[2] /\ last.val.c[2] = last.val.c[3])
         /\ last'.op = "set_brightness")
        => LET i == Wrap(last.idx)
               c == last.val.c
           IN  /\ Pixel(i).err = "none" /\ SubSeq(Pixel(i).value, 1, 3) = c
               /\ PostIsScaled(post_brightness_buffer, brightness, i, c)
               /\ PixelNext(i).err = "none" /\ SubSeq(PixelNext(i).value, 1, 3) = c
               /\ PostIsScaled(post_brightness_buffer', brightness', i, c) ]_vars

\* ------------------------------------------------------------------------
\* C2
\* ------------------------------------------------------------------------
\* The case of C2: a valid order, brightness 1.0, and a completed set_pixel
\* with as many components as the order has letters; the components are
\* bytes, the dotstar brightness a fraction.
RoundTripCase ==
    /\ SetPixelDone
    /\ ValidOrder(byteorder_string)
    /\ brightness = BrDen
    /\ last.val.kind = "seq"
    /\ Len(last.val.c) = Len(byteorder_string)
    /\ has_white => last.val.c[4] % WDen = 0

\* the fraction (floor(w * 31) mod 32) / 31, in 1/WDen
FiveBits(w) == ((((w * 31) \div WDen) % 32) * WDen) \div 31

\* C2 as stated: for every valid channel order bytes_per_pixel is len(order),
\* and at brightness 1.0 get_pixel(i) after set_pixel(i, c) returns c unchanged.
C2_RoundTripExact ==
    /\ (pc = "ready" /\ ValidOrder(byteorder_string)) => bpp = Len(byteorder_string)
    /\ RoundTripCase =>
          /\ Pixel(Wrap(last.idx)).err = "none"
          /\ Pixel(Wrap(last.idx)).value = last.val.c

\* C2 amended: for every valid channel order bytes_per_pixel is len(order),
\* and at brightness 1.0 get_pixel(i) after set_pixel(i, c) returns r, g, b
\* unchanged, w unchanged for a white channel, and for a dotstar order the
\* brightness quantised to five bits, (floor(w * 31) mod 32) / 31.
C2_RoundTripQuantised ==
    /\ (pc = "ready" /\ ValidOrder(byteorder_string)) => bpp = Len(byteorder_string)
    /\ RoundTripCase =>
          LET got == Pixel(Wrap(last.idx))
              c == last.val.c
          IN  /\ got.err = "none"
              /\ Len(got.value) = Len(c)
              /\ SubSeq(got.value, 1, 3) = SubSeq(c, 1, 3)
              /\ has_white => got.value[4] = c[4]
              /\ dotstar_mode => got.value[4] = FiveBits(c[4])

\* a dotstar pixel written with brightness fraction 0.5 at brightness 1.0
C2_Witness ==
    /\ RoundTripCase
    /\ dotstar_mode
    /\ last.val.c[4] = 31
    /\ last.idx = 0 - pixels

\* ------------------------------------------------------------------------
\* C3
\* ------------------------------------------------------------------------
\* C3: whenever pre_buffer exists, every byte i of the pixel region has
\* post_buffer[i] = floor(pre_buffer[i] * brightness), except the Fourth (P)
\* byte of each pixel in dotstar mode.
C3_PostIsScaledPre ==
    (pc = "ready" /\ pre_present) =>
        \A p \in offset..(offset + pixels * pixel_step - 1) :
            \/ /\ dotstar_mode
               /\ (p - offset) % pixel_step = IndexOf(byteorder_string, "P")
            \/ post_brightness_buffer[p + 1]
                  = Floor(pre_brightness_buffer[p + 1], brightness)

\* ------------------------------------------------------------------------
\* C4
\* ------------------------------------------------------------------------
\* C4: in dotstar mode the Fourth (P) byte of every pixel slot of post_buffer
\* has its top three bits set, in every state from construction on.
C4_StartBitsSet ==
    (pc = "ready" /\ dotstar_mode) =>
        \A j \in 0..(pixels - 1) :
            ChannelByte(post_brightness_buffer, j, "P") \div 32 = 7

\* ------------------------------------------------------------------------
\* C5
\* ------------------------------------------------------------------------
\* a completed set_pixel with a 3-tuple or a packed integer, 4-letter dotstar order
DefaultFrameCase ==
    /\ SetPixelDone
    /\ dotstar_mode
    /\ Len(byteorder_string) = 4
    /\ last.val.kind = "int" \/ IsTriple(last.val)

\* C5: in dotstar mode with a 4-character order, after set_pixel(i, c) with c
\* a 3-tuple or a packed integer the byte at the offset of P in pixel i's slot
\* of post_buffer is 0b11100000 | 31, whatever the global brightness.
C5_DefaultFullBrightFrame ==
    DefaultFrameCase =>
        ChannelByte(post_brightness_buffer, Wrap(last.idx), "P") = 224 + 31

\* such a write at global brightness 0.5, P last in the order
C5_Witness ==
    /\ DefaultFrameCase
    /\ brightness = 5000
    /\ IndexOf(byteorder_string, "P") = 3
    /\ last.val.kind = "int"

\* ------------------------------------------------------------------------
\* C6
\* ------------------------------------------------------------------------
\* value, clamped to [0, 1], differs from the current brightness by less
\* than 0.001
WithinThreshold(value) ==
    LET clamped == IF value < 0 THEN 0 ELSE IF value > BrDen THEN BrDen ELSE value
    IN  clamped - brightness < BrEps /\ brightness - clamped < BrEps

\* C6: set_brightness with a value within 0.001 of the current brightness
\* (after clamping) changes neither brightness nor post_buffer nor pre_buffer
\* (nor its absence) and triggers no transmission.
C6_NearEqualBrightnessIsNoOp ==
    [][ (pc = "ready" /\ last'.op = "set_brightness") =>
           \A v \in BrightnessSweep :
              (WithinThreshold(v) /\ SetBrightnessCall(v))
              => /\ UNCHANGED <<brightness, pre_present, pre_brightness_buffer,
                                post_brightness_buffer>>
                 /\ last'.shows = 0 ]_vars

\* with auto_write on, brightness = 0.5 at 0.5005: nothing transmitted
C6_Witness ==
    /\ pc = "ready"
    /\ auto_write
    /\ last.op = "set_brightness"
    /\ last.val = Level(5000)
    /\ last.shows = 0
    /\ brightness = 5005

\* with auto_write on, brightness = -0.3 at brightness 0: clamped to 0,
\* nothing transmitted
C6_WitnessClamped ==
    /\ pc = "ready"
    /\ auto_write
    /\ last.op = "set_brightness"
    /\ last.val = Level(0 - 3000)
    /\ last.shows = 0
    /\ brightness = 0

\* with auto_write on and pre_buffer absent, brightness = 1.2 at brightness
\* 1.0: clamped to 1.0, no pre_buffer created, nothing transmitted
C6_WitnessAbsent ==
    /\ pc = "ready"
    /\ auto_write
    /\ ~pre_present
    /\ last.op = "set_brightness"
    /\ last.val = Level(12000)
    /\ last.shows = 0
    /\ brightness = BrDen

\* ------------------------------------------------------------------------
\* C7
\* ------------------------------------------------------------------------
\* the logical pixel j is <<r, g, b, w>> (w a byte): get_pixel returns it and
\* each of its post_buffer bytes is floor(component * brightness)
StoredAs(j, r, g, b, w) ==
    /\ Pixel(j).err = "none"
    /\ Pixel(j).value = <<r, g, b, w * WDen>>
    /\ PostIsScaled(post_brightness_buffer, brightness, j, <<r, g, b>>)
    /\ ChannelByte(post_brightness_buffer, j, "W") = Floor(w, brightness)
    /\ pre_present =>
          /\ ChannelByte(pre_brightness_buffer, j, "R") = r
          /\ ChannelByte(pre_brightness_buffer, j, "G") = g
          /\ ChannelByte(pre_brightness_buffer, j, "B") = b
          /\ ChannelByte(pre_brightness_buffer, j, "W") = w

WhiteCase == SetPixelDone /\ has_white /\ ValidOrder(byteorder_string)

\* C7: with a white channel, set_pixel(i, c) with c a packed integer or a
\* 3-tuple with r = g = b = v stores r = 0, g = 0, b = 0, w = v; with c an
\* explicit 4-tuple of bytes it stores the four components as given.
C7_WhiteInference ==
    WhiteCase =>
        LET i == Wrap(last.idx)
            val == last.val
            r == IF val.kind = "int" THEN val.v \div 65536 ELSE val.c[1]
            g == IF val.kind = "int" THEN (val.v \div 256) % 256 ELSE val.c[2]
            b == IF val.kind = "int" THEN val.v % 256 ELSE val.c[3]
        IN  /\ ((val.kind = "int" \/ IsTriple(val)) /\ r = g /\ g = b)
                  => StoredAs(i, 0, 0, 0, r)
            /\ (IsQuad(val) /\ val.c[4] % WDen = 0)
                  => StoredAs(i, r, g, b, val.c[4] \div WDen)

\* the 3-tuple (5, 5, 5) written while pre_buffer exists, at brightness 0.5
C7_Witness ==
    /\ WhiteCase
    /\ last.val = SeqColor(<<5, 5, 5>>)
    /\ pre_present
    /\ brightness = 5000

\* the explicit 4-tuple (5, 5, 5, 0)
C7_WitnessQuad ==
    /\ WhiteCase
    /\ last.val = SeqColor(<<5, 5, 5, 0>>)
    /\ pre_present

\* ------------------------------------------------------------------------
\* C8
\* ------------------------------------------------------------------------
ValidColor(c) == c.kind = "int" \/ Len(c.c) \in {3, 4}

\* get_pixel: an index in [-pixel_count, -1] reads pixel k + pixel_count, an
\* index outside [-pixel_count, pixel_count) fails with an index error
GetIndexing ==
    \A k \in (0 - pixels - 2)..(pixels + 1) :
        IF k \in (0 - pixels)..(0 - 1)
        THEN Pixel(k) = Pixel(k + pixels) /\ Pixel(k).err = "none"
        ELSE IF k \in 0..(pixels - 1) THEN Pixel(k).err = "none"
        ELSE Pixel(k).err = "IndexError"

\* what set_pixel(k, c) does in this state: the buffers it leaves, the
\* exception it raises and the transmissions it triggers
SetPixelOutcome(k, c) ==
    LET B == SetPixelResult(Self, brightness, Buffers, k, c)
    IN  [present |-> B.present, pre |-> B.pre, post |-> B.post, res |-> B.err,
         shows |-> ShowsAfter(B.err)]

\* set_pixel(k, c) with k outside [-pixel_count, pixel_count) fails (with an
\* index error when c is a colour), writes nothing and transmits nothing
SetFails(k, c) ==
    LET out == SetPixelOutcome(k, c)
    IN  /\ out.res # "none"
        /\ ValidColor(c) => out.res = "IndexError"
        /\ out.shows = 0
        /\ out.present = pre_present
        /\ out.pre = pre_brightness_buffer
        /\ out.post = post_brightness_buffer

\* C8: an index k in [-pixel_count, -1] names pixel k + pixel_count for
\* get_pixel and set_pixel; an index outside [-pixel_count, pixel_count)
\* makes both fail with an index error, the failed set_pixel leaving both
\* buffers unchanged and triggering no transmission.
C8_Indexing ==
    (pc = "ready" /\ ValidOrder(byteorder_string)) =>
        /\ GetIndexing
        /\ \A k \in (0 - pixels - 2)..(pixels + 1), c \in Colors :
              IF k >= 0 - pixels /\ k < 0
              THEN SetPixelOutcome(k, c) = SetPixelOutcome(k + pixels, c)
              ELSE IF k >= 0 /\ k < pixels THEN TRUE
              ELSE SetFails(k, c)

\* a set_pixel with a wrapped negative index that wrote the first pixel of two
C8_Witness ==
    /\ SetPixelDone
    /\ pixels = 2
    /\ last.idx = 0 - 2
    /\ Pixel(0).value = <<10, 20, 30>>

\* a set_pixel that failed with an index error
C8_WitnessFail ==
    /\ pc = "ready"
    /\ ValidOrder(byteorder_string)
    /\ last.op = "set_pixel"
    /\ last.res = "IndexError"

\* ------------------------------------------------------------------------
\* C9
\* ------------------------------------------------------------------------
\* C9: for every order string that parse accepts, at most one of has_white
\* and dotstar_mode is true, bytes_per_pixel is 3 + (1 if has_white or
\* dotstar_mode else 0), and channel_offsets is a permutation of
\* {0, .., bytes_per_pixel - 1}.
C9_ParsedSpecIsWellFormed ==
    pc = "ready" =>
        /\ ~(has_white /\ dotstar_mode)
        /\ bpp = 3 + (IF has_white \/ dotstar_mode THEN 1 ELSE 0)
        /\ Len(byteorder) = bpp
        /\ {byteorder[k] : k \in 1..Len(byteorder)} = 0..(bpp - 1)

\* ------------------------------------------------------------------------
\* C10
\* ------------------------------------------------------------------------
\* a character outside R, G, B, W, P, or one of R, G, B missing
BadOrder(s) ==
    \/ \E k \in 1..Len(s) : s[k] \notin {"R", "G", "B", "W", "P"}
    \/ Count(s, "R") = 0 \/ Count(s, "G") = 0 \/ Count(s, "B") = 0

\* C10: construction with an order string that contains a character outside
\* R, G, B, W, P or lacks one of R, G, B raises the invalid-channel-order
\* error, and creates no buffer and transmits nothing.
C10_InvalidOrderRaises ==
    [][ pc = "new" =>
           \A n \in 1..MaxPixels, bppArg \in {3, 4}, br \in Brightnesses,
              aw \in AutoWrites, po \in PixelOrders, ht \in Layouts :
              (po.kind = "str" /\ po.s # <<>> /\ BadOrder(po.s)
               /\ Construct(n, bppArg, br, aw, po, ht[1], ht[2]))
              => /\ pc' = "failed"
                 /\ last'.res = "ValueError"
                 /\ last'.shows = 0
                 /\ post_brightness_buffer' = <<>>
                 /\ ~pre_present' ]_vars

\* a construction that raised the invalid-channel-order error
C10_Witness ==
    /\ pc = "failed"
    /\ last.op = "init"
    /\ last.res = "ValueError"
    /\ post_brightness_buffer = <<>>

\* ------------------------------------------------------------------------
\* C11
\* ------------------------------------------------------------------------
\* the call this step made triggered one transmission if auto_write is on,
\* issued when post_buffer was as the call left it, and none if it is off
OneTransmission ==
    /\ last'.shows = (IF auto_write THEN 1 ELSE 0)
    /\ auto_write => last'.sent = post_brightness_buffer'

\* C11: each completed set_pixel, set_slice and fill and each set_brightness
\* that changes brightness triggers exactly one transmission when auto_write
\* is true, issued after all the buffer writes of the operation, and none
\* when auto_write is false; construction never transmits.
C11_TransmissionCount ==
    [][ /\ (pc = "ready" /\ last'.res = "none"
            /\ last'.op \in {"set_pixel", "set_slice", "fill"})
           => OneTransmission
        /\ (pc = "ready" /\ last'.op = "set_brightness"
            /\ brightness' # brightness)
           => OneTransmission
        /\ last'.op = "init" => last'.shows = 0 ]_vars

\* with auto_write on, a completed set_slice over two pixels made one
\* transmission
C11_Witness ==
    /\ pc = "ready"
    /\ auto_write
    /\ pixels = 2
    /\ last.op = "set_slice"
    /\ last.res = "none"
    /\ Pixel(0).value = <<10, 20, 30>> /\ Pixel(1).value = <<10, 20, 30>>
    /\ last.shows = 1

\* with auto_write off, a fill that transmitted nothing
C11_WitnessOff ==
    /\ pc = "ready"
    /\ ~auto_write
    /\ last.op = "fill"
    /\ last.res = "none"
    /\ last.shows = 0

\* with auto_write on, a brightness change that made one transmission
C11_WitnessBrightness ==
    /\ pc = "ready"
    /\ auto_write
    /\ last.op = "set_brightness"
    /\ last.shows = 1
    /\ last.sent = post_brightness_buffer

\* ------------------------------------------------------------------------
\* C12
\* ------------------------------------------------------------------------
\* the r, g, b bytes (and the w byte with a white channel) of every pixel of
\* buf are 0
AllZero(buf) ==
    \A j \in 0..(pixels - 1) :
        /\ ChannelByte(buf, j, "R") = 0
        /\ ChannelByte(buf, j, "G") = 0
        /\ ChannelByte(buf, j, "B") = 0
        /\ has_white => ChannelByte(buf, j, "W") = 0

\* C12: deinit on a strip of a valid order completes; after it every pixel's
\* r, g, b (and w with a white channel) bytes are 0 in post_buffer and in
\* pre_buffer when present; it made the transmission of fill(0) when
\* auto_write is true and one more whatever auto_write, the last of them
\* when all pixels were zeroed.
C12_DeinitZeroesAndTransmits ==
    (pc = "ready" /\ last.op = "deinit" /\ ValidOrder(byteorder_string)) =>
        /\ last.res = "none"
        /\ AllZero(post_brightness_buffer)
        /\ pre_present => AllZero(pre_brightness_buffer)
        /\ last.shows = 1 + (IF auto_write THEN 1 ELSE 0)
        /\ last.sent = post_brightness_buffer

\* a deinit of two pixels with auto_write off, pre_buffer present, at
\* brightness 0.5
C12_Witness ==
    /\ pc = "ready"
    /\ last.op = "deinit"
    /\ last.res = "none"
    /\ ~auto_write
    /\ pixels = 2
    /\ pre_present
    /\ brightness = 5000
    /\ last.shows = 1

\* ------------------------------------------------------------------------
\* C13
\* ------------------------------------------------------------------------
\* a sequence whose length is not 3 or 4
BadLength(c) == c.kind = "seq" /\ Len(c.c) \notin {3, 4}

\* C13: set_pixel and fill with a sequence whose length is not 3 or 4 fail
\* with the wrong-colour-length error (ValueError), transmit nothing and
\* leave both buffers, the absence of pre_buffer and brightness unchanged,
\* whatever the index.
C13_WrongLengthRaises ==
    [][ (pc = "ready" /\ last'.op \in {"set_pixel", "fill"}) =>
           \A i \in {0, 0 - 1, MaxPixels}, c \in ShowColors :
              (BadLength(c) /\ (SetPixel(i, c) \/ Fill(c)))
              => /\ last'.res = "ValueError"
                 /\ last'.shows = 0
                 /\ UNCHANGED <<pre_present, pre_brightness_buffer,
                                post_brightness_buffer, brightness>> ]_vars

\* a fill that raised the error on a strip with a pixel set, pre_buffer
\* present
C13_Witness ==
    /\ pc = "ready"
    /\ last.op = "fill"
    /\ last.res = "ValueError"
    /\ pre_present
    /\ SubSeq(Pixel(0).value, 1, 3) = <<10, 20, 30>>

\* a set_pixel that raised it
C13_WitnessPixel ==
    /\ pc = "ready"
    /\ last.op = "set_pixel"
    /\ last.res = "ValueError"
    /\ SubSeq(Pixel(0).value, 1, 3) = <<10, 20, 30>>

\* ------------------------------------------------------------------------
\* C14
\* ------------------------------------------------------------------------
\* C14: colorwheel(pos) is (0, 0, 0) for pos outside [0, 255],
\* (255 - 3 pos, 3 pos, 0) for pos in [0, 84],
\* (0, 255 - 3 (pos - 85), 3 (pos - 85)) for pos in [85, 169] and
\* (3 (pos - 170), 0, 255 - 3 (pos - 170)) for pos in [170, 255]; so it is
\* (255, 0, 0) at 0, (0, 255, 0) at 85 and (0, 0, 255) at 170, and for pos in
\* [0, 255] each component is in [0, 255] and the three sum to 255.
C14_Colorwheel ==
    (pc = "wheel" /\ last.op = "colorwheel") =>
        LET pos == last.idx
            v == last.val.c
        IN  /\ Len(v) = 3
            /\ pos \notin 0..255 => v = <<0, 0, 0>>
            /\ pos \in 0..84 => v = <<255 - 3 * pos, 3 * pos, 0>>
            /\ pos \in 85..169 => v = <<0, 255 - 3 * (pos - 85), 3 * (pos - 85)>>
            /\ pos \in 170..255 => v = <<3 * (pos - 170), 0, 255 - 3 * (pos - 170)>>
            /\ pos = 0 => v = <<255, 0, 0>>
            /\ pos = 85 => v = <<0, 255, 0>>
            /\ pos = 170 => v = <<0, 0, 255>>
            /\ pos \in 0..255 =>
                  /\ \A k \in 1..3 : v[k] \in 0..255
                  /\ v[1] + v[2] + v[3] = 255

\* colorwheel(256) was computed
C14_Witness ==
    /\ pc = "wheel"
    /\ last.op = "colorwheel"
    /\ last.idx = 256
    /\ last.val.c = <<0, 0, 0>>

\* colorwheel(169), the last position of the second band, was computed
C14_WitnessBand ==
    /\ pc = "wheel"
    /\ last.op = "colorwheel"
    /\ last.idx = 169
    /\ last.val.c = <<0, 3, 252>>

\* ------------------------------------------------------------------------
\* C15
\* ------------------------------------------------------------------------
\* C15: in dotstar mode a set_brightness that changes brightness leaves the
\* Fourth (P) byte of every pixel slot of post_buffer as it was and rescales
\* the r, g and b bytes of each pixel from pre_buffer.
C15_BrightnessKeepsFrameByte ==
    [][ (pc = "ready" /\ dotstar_mode /\ ValidOrder(byteorder_string)
         /\ last'.op = "set_brightness" /\ brightness' # brightness)
        => \A j \in 0..(pixels - 1) :
              /\ ChannelByte(post_brightness_buffer', j, "P")
                    = ChannelByte(post_brightness_buffer, j, "P")
              /\ \A ch \in {"R", "G", "B"} :
                    ChannelByte(post_brightness_buffer', j, ch)
                       = Floor(ChannelByte(pre_brightness_buffer', j, ch),
                               brightness') ]_vars

\* ------------------------------------------------------------------------
\* C16
\* ------------------------------------------------------------------------
\* the positions (from 0) of pixel i's slot
Slot(i) == (offset + i * pixel_step)..(offset + (i + 1) * pixel_step - 1)

\* C16: post_buffer is offset + pixel_count * pixel_stride + trailer_length
\* bytes long from construction on (and pre_buffer as long when present), and
\* a successful set_pixel(i, c) changes no byte of post_buffer or pre_buffer
\* outside pixel i's slot [offset + i * stride, offset + (i + 1) * stride).
C16_PixelWriteFrame ==
    [][ /\ pc = "new" =>
              \A n \in 1..MaxPixels, bppArg \in {3, 4}, br \in ShowBrightnesses,
                 po \in FrameOrders, ht \in FrameLayouts :
                 (Construct(n, bppArg, br, TRUE, po, ht[1], ht[2]) /\ pc' = "ready")
                 => Len(post_brightness_buffer')
                       = offset' + pixels' * pixel_step' + Len(ht[2].buf)
        /\ pc = "ready" =>
              /\ Len(post_brightness_buffer') = Len(post_brightness_buffer)
              /\ pre_present' =>
                    Len(pre_brightness_buffer') = Len(post_brightness_buffer')
        /\ (pc = "ready" /\ last'.op = "set_pixel" /\ last'.res = "none") =>
              \A q \in 0..(Len(post_brightness_buffer) - 1) :
                 q \notin Slot(Wrap(last'.idx)) =>
                    /\ post_brightness_buffer'[q + 1] = post_brightness_buffer[q + 1]
                    /\ pre_present =>
                          pre_brightness_buffer'[q + 1] = pre_brightness_buffer[q + 1]
      ]_vars

\* ------------------------------------------------------------------------
\* C19
\* ------------------------------------------------------------------------
\* C19: on a strip of a valid order, with or without header and trailer,
\* get_slice over the full range returns pixel_count entries, entry k equal
\* to get_pixel(k), in ascending order.
C19_FullSliceIsEveryPixel ==
    [][ (pc = "ready" /\ ValidOrder(byteorder_string)
         /\ last'.op = "get_slice" /\ GetSliceCall(FullRange))
        => /\ last'.res = "none"
           /\ Len(last'.val.c) = pixels
           /\ \A k \in 0..(pixels - 1) :
                 /\ Pixel(k).err = "none"
                 /\ last'.val.c[k + 1] = Pixel(k).value ]_vars

\* ------------------------------------------------------------------------
\* C17
\* ------------------------------------------------------------------------
\* C17: pre_buffer is absent only while brightness is 1.0, and get_pixel then
\* reads post_buffer; the brightness change that creates it makes it a copy
\* of post_buffer as it was before rescaling; once present it stays present,
\* also after brightness returns to 1.0 and after deinit.
C17_PreBufferLifecycle ==
    /\ [](pc = "ready" /\ ~pre_present =>
            /\ brightness = BrDen
            /\ \A k \in 0..(pixels - 1) :
                  Pixel(k) = GetItem(Self, TRUE, post_brightness_buffer,
                                     post_brightness_buffer, k))
    /\ [][ /\ pre_present => pre_present'
           /\ (pc = "ready" /\ ~pre_present /\ pre_present') =>
                 /\ last'.op = "set_brightness"
                 /\ brightness' # BrDen
                 /\ pre_brightness_buffer' = post_brightness_buffer
           /\ (pc = "ready" /\ ~pre_present /\ ~pre_present'
               /\ last'.op = "set_brightness") =>
                 post_brightness_buffer' = post_brightness_buffer ]_vars

\* created by a change to 0.5 after a write: the copy holds the colour as it
\* was written and post_buffer the rescaled one
C17_Witness ==
    /\ pc = "ready" /\ last.op = "set_brightness" /\ pre_present
    /\ brightness = 5000
    /\ \E j \in 1..Len(pre_brightness_buffer) :
          pre_brightness_buffer[j] = 20 /\ post_brightness_buffer[j] = 10

\* still present after brightness returned to 1.0 and the strip was deinited
C17_WitnessStays ==
    /\ pc = "ready" /\ last.op = "deinit" /\ last.res = "none"
    /\ pre_present /\ brightness = BrDen

\* absent at brightness 1.0 with a colour written: the read is of post_buffer
C17_WitnessAbsent ==
    /\ pc = "ready" /\ ~pre_present /\ last.op = "set_pixel" /\ last.res = "none"
    /\ \E j \in 1..Len(post_brightness_buffer) : post_brightness_buffer[j] = 20

\* ------------------------------------------------------------------------
\* C18
\* ------------------------------------------------------------------------
\* bits lo..lo+7 of v
Bits(v, lo) == (v \div (2 ^ lo)) % 256

\* C18: for a packed integer v >= 0, of 24 bits or more, decode yields
\* r = bits 16..23 of v, g = bits 8..15 and b = bits 0..7, each in 0..255,
\* and w = 0 outside dotstar mode (white inference, which moves an all-equal
\* r, g, b into w on a strip with a white channel, set apart).
C18_PackedDecode ==
    (pc = "ready" /\ last.op = "parse_color") =>
        LET v == last.val.v
            c == last.val.c
            grey == bpp = 4 /\ has_white /\ ~dotstar_mode
                    /\ Bits(v, 16) = Bits(v, 8) /\ Bits(v, 8) = Bits(v, 0)
        IN  /\ last.res = "none"
            /\ Len(c) = 4
            /\ \A k \in 1..3 : c[k] \in 0..255
            /\ ~grey => c[1] = Bits(v, 16) /\ c[2] = Bits(v, 8) /\ c[3] = Bits(v, 0)
            /\ (~grey /\ ~dotstar_mode) => c[4] = 0

\* ------------------------------------------------------------------------
\* C20
\* ------------------------------------------------------------------------
\* C20: after a successful set_pixel(i, c) on a strip of a valid order, c a
\* sequence of 3 or 4 components (a 4-tuple given to a 3-channel strip
\* included), get_pixel(i) returns c's first three components as r, g, b,
\* unless white inference moved an all-equal r, g, b into w.
C20_NoColorDiscarded ==
    (SetPixelDone /\ ValidOrder(byteorder_string)
     /\ (IsTriple(last.val) \/ IsQuad(last.val))) =>
        LET c == last.val.c
            inferred == bpp = 4 /\ has_white /\ ~dotstar_mode /\ Len(c) = 3
                        /\ c[1] = c[2] /\ c[2] = c[3]
            got == Pixel(Wrap(last.idx))
        IN  ~inferred =>
                /\ got.err = "none"
                /\ SubSeq(got.value, 1, 3) = SubSeq(c, 1, 3)

====
